---- MODULE Spec2Model ----
(***************************************************************************)
(* Model of tuplex::ResultSet (core/src/physical/ResultSet.cc): the cursor *)
(* that merges the rows of the normal-case partitions with the python      *)
(* objects of the fallback path into one stream of rows.                   *)
(*                                                                         *)
(* A partition is identified by an integer: 1, 2, ... for the partitions   *)
(* of the normal case, -1, -2, ... for the exception partitions.  A row is *)
(* a record [kind, a, b]: the b-th row of partition a, the row converted   *)
(* from python object a, the empty Row(), or whatever a decode beyond the  *)
(* rows of a partition yields.                                             *)
(***************************************************************************)
EXTENDS Integers, Sequences, FiniteSets, TLC

\* ---------------------------------------------------------------- bounds
MaxParts == 2          \* partitions handed to the constructor
MaxPartRows == 2       \* rows of one partition
MaxPyObjects == 2      \* python objects handed to the constructor
MaxRowNumber == 1      \* largest row number tagging a python object
MaxBudget == 1         \* largest finite maxRows argument
MaxExceptions == 1     \* exception partitions handed to the constructor, if any
MaxPulls == 2          \* getNextRow calls in one behaviour

\* std::numeric_limits<int64_t>::max(), the budget of an unlimited cursor.
\* It is only ever compared with _rowsRetrieved, which stays far below it;
\* the model checker's integers are 32 bits wide, so the largest of those
\* stands for it.
INT64_MAX == 2147483647

VARIABLES
    numRows,          \* Partition::getNumRows() of every normal partition
    given,            \* the pyobjects argument of the constructor
    partitions,       \* _partitions: deque of partition ids
    pyobjects,        \* _pyobjects: deque of <<row number, object id>>
    exceptions,       \* _exceptions: vector of partition ids
    curRowCounter,    \* _curRowCounter
    totalRowCounter,  \* _totalRowCounter
    byteCounter,      \* _byteCounter
    maxRows,          \* _maxRows
    rowsRetrieved,    \* _rowsRetrieved
    invalidated,      \* per partition: invalidate() calls so far: 0, 1, or 2
                      \* for two and more
    lockedDead,       \* TRUE once lock() was called on an invalidated partition
    handed,           \* partitions returned by getNextPartition
    out,              \* rows returned by the getNextRow calls so far, in order
    totals,           \* _totalRowCounter at the return of each of these calls
    op,               \* the operation called last
    ret,              \* what it returned
    events            \* lock/unlock/convert/decode events of the last call

vars == <<numRows, given, partitions, pyobjects, exceptions, curRowCounter,
          totalRowCounter, byteCounter, maxRows, rowsRetrieved, invalidated,
          lockedDead, handed, out, totals, op, ret, events>>

\* the members of the cursor (everything but the observation variables)
members == <<partitions, pyobjects, exceptions, curRowCounter,
             totalRowCounter, byteCounter, maxRows, rowsRetrieved>>

Range(s) == {s[i] : i \in DOMAIN s}

Last(s) == s[Len(s)]

\* ------------------------------------------------------------------ rows
PartitionRow(p, k) == [kind |-> "partition", a |-> p, b |-> k]
EmptyRow == [kind |-> "empty", a |-> 0, b |-> 0]
GarbageRow == [kind |-> "garbage", a |-> 0, b |-> 0]
NoPartition == 0

\* python::pythonToRow: the row converted from a python object
pythonToRow(obj) == [kind |-> "pyobject", a |-> obj, b |-> 0]

\* Row::serializedLength of the k-th row of partition p: rows are multiples
\* of 8 bytes and differ in length.
SerializedLength(p, k) == 8 * (1 + ((p + k) % 2))

\* byte offset of the k-th row in the buffer of partition p
RECURSIVE RowStart(_, _)
RowStart(p, k) == IF k <= 1 THEN 0
                  ELSE RowStart(p, k - 1) + SerializedLength(p, k - 1)

\* Row::fromMemory(schema, ptr + offset, ...) on partition p: the outcomes
\* <<row, serialized length>>.  At the start of a stored row it decodes that
\* row.  Anywhere else the read is beyond or across the stored rows: the
\* bytes there are arbitrary, so the row is garbage and its length is any.
FromMemory(p, offset) ==
    LET at == {k \in 1..numRows[p] : RowStart(p, k) = offset}
    IN  IF at # {}
        THEN {<<PartitionRow(p, k), SerializedLength(p, k)>> : k \in at}
        ELSE {<<GarbageRow, n>> : n \in {0, 8}}

\* ----------------------------------------------------------- constructor
\* the python objects arrive in ascending order of row number
SortedTags(m) == {f \in [1..m -> 0..MaxRowNumber] :
                    \A i \in 1..m, j \in 1..m : i <= j => f[i] <= f[j]}

ResultSetCtor(n, rows, tags, e, maxRowsArg) ==
    /\ numRows = rows
    /\ given = [j \in DOMAIN tags |-> <<tags[j], j>>]
    /\ partitions = [i \in 1..n |-> i]
    /\ pyobjects = given
    /\ exceptions = [j \in 1..e |-> -j]
    /\ curRowCounter = 0
    /\ totalRowCounter = 0
    /\ byteCounter = 0
    /\ maxRows = IF maxRowsArg < 0 THEN INT64_MAX ELSE maxRowsArg
    /\ rowsRetrieved = 0
    /\ invalidated = [p \in (1..n) \cup {-j : j \in 1..e} |-> 0]

\* clear() treats every exception partition alike: the constructor is given
\* none of them or MaxExceptions
Init ==
    /\ \E n \in 0..MaxParts, m \in 0..MaxPyObjects, e \in {0, MaxExceptions} :
         \E rows \in [1..n -> 0..MaxPartRows], tags \in SortedTags(m),
            maxRowsArg \in -1..MaxBudget :
              ResultSetCtor(n, rows, tags, e, maxRowsArg)
    /\ lockedDead = FALSE
    /\ handed = {}
    /\ out = <<>>
    /\ totals = <<>>
    /\ op = "ResultSet"
    /\ ret = "void"
    /\ events = <<>>

\* ---------------------------------------------------------------- queries
\* hasNextRow(), hasNextPartition() and rowCount() read the members and write
\* none: they are the values below, in every state.
\* hasNextRow() as it would be without the budget test of line 49
HasNextRowIgnoringBudget ==
    IF partitions = <<>> /\ pyobjects = <<>> THEN FALSE
    ELSE IF partitions = <<>> THEN TRUE
    ELSE IF pyobjects = <<>> THEN curRowCounter < numRows[Head(partitions)]
    ELSE TRUE

HasNextRow ==
    IF rowsRetrieved >= maxRows THEN FALSE
    ELSE IF partitions = <<>> /\ pyobjects = <<>> THEN FALSE
    ELSE IF partitions = <<>> THEN TRUE
    ELSE IF pyobjects = <<>> THEN curRowCounter < numRows[Head(partitions)]
    ELSE TRUE

HasNextPartition ==
    IF rowsRetrieved >= maxRows THEN FALSE
    ELSE IF partitions = <<>> THEN FALSE
    ELSE curRowCounter < numRows[Head(partitions)]

\* the loop of rowCount() over _partitions
RECURSIVE CountRows(_)
CountRows(ps) == IF ps = <<>> THEN 0
                 ELSE numRows[Head(ps)] + CountRows(Tail(ps))

\* rowCount() as it would be if it left out the rows already pulled
RowCountOfUnread == CountRows(partitions) - curRowCounter + Len(pyobjects)

RowCount == CountRows(partitions) + Len(pyobjects)

\* ------------------------------------------------------------- operations
AtMostTwo(n) == IF n > 2 THEN 2 ELSE n

\* Partition::invalidate() on every partition of ps
Invalidate(ps) ==
    [p \in DOMAIN invalidated |->
        AtMostTwo(invalidated[p] + Cardinality({i \in DOMAIN ps : ps[i] = p}))]

\* clear() as it would be without line 41 (_maxRows = 0)
clearKeepingBudget ==
    /\ invalidated' = Invalidate(partitions \o exceptions)
    /\ partitions' = <<>>
    /\ curRowCounter' = 0
    /\ byteCounter' = 0
    /\ rowsRetrieved' = 0
    /\ op' = "clear"
    /\ ret' = "void"
    /\ events' = <<>>
    /\ UNCHANGED <<numRows, given, pyobjects, exceptions, totalRowCounter,
                   maxRows, lockedDead, handed, out, totals>>

clear ==
    /\ invalidated' = Invalidate(partitions \o exceptions)
    /\ partitions' = <<>>
    /\ curRowCounter' = 0
    /\ byteCounter' = 0
    /\ maxRows' = 0
    /\ rowsRetrieved' = 0
    /\ op' = "clear"
    /\ ret' = "void"
    /\ events' = <<>>
    /\ UNCHANGED <<numRows, given, pyobjects, exceptions, totalRowCounter,
                   lockedDead, handed, out, totals>>

\* getNextPartition() as it would be if line 100 charged only the rows of the
\* partition that getNextRow has not returned
getNextPartitionChargingUnread ==
    /\ op' = "getNextPartition"
    /\ events' = <<>>
    /\ IF partitions = <<>>
       THEN /\ ret' = NoPartition
            /\ UNCHANGED <<members, handed>>
       ELSE /\ ret' = Head(partitions)
            /\ rowsRetrieved' = rowsRetrieved + numRows[Head(partitions)]
                                  - curRowCounter
            /\ partitions' = Tail(partitions)
            /\ curRowCounter' = 0
            /\ byteCounter' = 0
            /\ handed' = handed \cup {Head(partitions)}
            /\ UNCHANGED <<pyobjects, exceptions, totalRowCounter, maxRows>>
    /\ UNCHANGED <<numRows, given, invalidated, lockedDead, out, totals>>

\* getNextPartition() as it would be without line 104 (_byteCounter = 0)
getNextPartitionKeepingByteOffset ==
    /\ op' = "getNextPartition"
    /\ events' = <<>>
    /\ IF partitions = <<>>
       THEN /\ ret' = NoPartition
            /\ UNCHANGED <<members, handed>>
       ELSE /\ ret' = Head(partitions)
            /\ rowsRetrieved' = rowsRetrieved + numRows[Head(partitions)]
            /\ partitions' = Tail(partitions)
            /\ curRowCounter' = 0
            /\ handed' = handed \cup {Head(partitions)}
            /\ UNCHANGED <<pyobjects, exceptions, totalRowCounter, maxRows,
                           byteCounter>>
    /\ UNCHANGED <<numRows, given, invalidated, lockedDead, out, totals>>

getNextPartition ==
    /\ op' = "getNextPartition"
    /\ events' = <<>>
    /\ IF partitions = <<>>
       THEN /\ ret' = NoPartition
            /\ UNCHANGED <<members, handed>>
       ELSE /\ ret' = Head(partitions)
            /\ rowsRetrieved' = rowsRetrieved + numRows[Head(partitions)]
            /\ partitions' = Tail(partitions)
            /\ curRowCounter' = 0
            /\ byteCounter' = 0
            /\ handed' = handed \cup {Head(partitions)}
            /\ UNCHANGED <<pyobjects, exceptions, totalRowCounter, maxRows>>
    /\ UNCHANGED <<numRows, given, invalidated, lockedDead, out, totals>>

\* removeFirstPartition() as it would be without line 195 (_byteCounter = 0)
RemoveFirstKeepingByteOffset ==
    /\ invalidated' = Invalidate(<<Head(partitions)>>)
    /\ partitions' = Tail(partitions)
    /\ curRowCounter' = 0
    /\ byteCounter' = byteCounter

\* the body of removeFirstPartition(), shared with getNextRow
RemoveFirst ==
    /\ invalidated' = Invalidate(<<Head(partitions)>>)
    /\ partitions' = Tail(partitions)
    /\ curRowCounter' = 0
    /\ byteCounter' = 0

\* assert(_partitions.size() > 0): the call is made on a non-empty queue
removeFirstPartition ==
    /\ partitions # <<>>
    /\ RemoveFirst
    /\ op' = "removeFirstPartition"
    /\ ret' = "void"
    /\ events' = <<>>
    /\ UNCHANGED <<numRows, given, pyobjects, exceptions, totalRowCounter,
                   maxRows, rowsRetrieved, lockedDead, handed, out, totals>>

\* the merge condition as it would be with < for <= in line 118
MergeObjectStrictlyBelow ==
    /\ pyobjects # <<>>
    /\ partitions = <<>> \/ Head(pyobjects)[1] < totalRowCounter

\* getNextRow, lines 111-137: the front python object is due
MergeObject ==
    /\ pyobjects # <<>>
    /\ partitions = <<>> \/ Head(pyobjects)[1] <= totalRowCounter

\* the merge as it would be without line 123 (_pyobjects.pop_front())
EmitObjectWithoutPop ==
    /\ events' = <<"lockGIL", "pythonToRow", "unlockGIL">>
    /\ ret' = pythonToRow(Head(pyobjects)[2])
    /\ rowsRetrieved' = rowsRetrieved + 1
    /\ totalRowCounter' = totalRowCounter + 1
    /\ UNCHANGED <<partitions, pyobjects, exceptions, curRowCounter,
                   byteCounter, maxRows, invalidated, lockedDead>>

\* the merge as it would be without line 122 (python::unlockGIL())
EmitObjectHoldingGIL ==
    LET row_number == Head(pyobjects)[1]
        obj == Head(pyobjects)[2]
        rest == Tail(pyobjects)
    IN  /\ events' = <<"lockGIL", "pythonToRow">>
        /\ ret' = pythonToRow(obj)
        /\ pyobjects' = rest
        /\ rowsRetrieved' = rowsRetrieved + 1
        /\ totalRowCounter' = IF rest = <<>> THEN totalRowCounter + 1
                              ELSE IF Head(rest)[1] # row_number
                                   THEN totalRowCounter + 1
                                   ELSE totalRowCounter
        /\ UNCHANGED <<partitions, exceptions, curRowCounter, byteCounter,
                       maxRows, invalidated, lockedDead>>

\* the merge as it would be without the test for double indices (lines
\* 127-133): every python object advances _totalRowCounter
EmitObjectCountingDuplicates ==
    /\ events' = <<"lockGIL", "pythonToRow", "unlockGIL">>
    /\ ret' = pythonToRow(Head(pyobjects)[2])
    /\ pyobjects' = Tail(pyobjects)
    /\ rowsRetrieved' = rowsRetrieved + 1
    /\ totalRowCounter' = totalRowCounter + 1
    /\ UNCHANGED <<partitions, exceptions, curRowCounter, byteCounter,
                   maxRows, invalidated, lockedDead>>

EmitObject ==
    LET row_number == Head(pyobjects)[1]
        obj == Head(pyobjects)[2]
        rest == Tail(pyobjects)
    IN  /\ events' = <<"lockGIL", "pythonToRow", "unlockGIL">>
        /\ ret' = pythonToRow(obj)
        /\ pyobjects' = rest
        /\ rowsRetrieved' = rowsRetrieved + 1
        /\ totalRowCounter' = IF rest = <<>> THEN totalRowCounter + 1
                              ELSE IF Head(rest)[1] # row_number
                                   THEN totalRowCounter + 1
                                   ELSE totalRowCounter
        /\ UNCHANGED <<partitions, exceptions, curRowCounter, byteCounter,
                       maxRows, invalidated, lockedDead>>

\* the partition read as it would be without lines 167-168: the front
\* partition stays in the queue after its last row
EmitPartitionRowWithoutRetirement ==
    LET first == Head(partitions)
    IN  \E d \in FromMemory(first, byteCounter) :
          /\ events' = <<"lock", "fromMemory", "unlock">>
          /\ lockedDead' = (lockedDead \/ invalidated[first] > 0)
          /\ ret' = d[1]
          /\ rowsRetrieved' = rowsRetrieved + 1
          /\ totalRowCounter' = totalRowCounter + 1
          /\ byteCounter' = byteCounter + d[2]
          /\ curRowCounter' = curRowCounter + 1
          /\ UNCHANGED <<partitions, invalidated, pyobjects, exceptions,
                         maxRows>>

\* getNextRow, lines 143-170: one row of the front partition
EmitPartitionRow ==
    LET first == Head(partitions)
    IN  \E d \in FromMemory(first, byteCounter) :
          /\ events' = <<"lock", "fromMemory", "unlock">>
          /\ lockedDead' = (lockedDead \/ invalidated[first] > 0)
          /\ ret' = d[1]
          /\ rowsRetrieved' = rowsRetrieved + 1
          /\ totalRowCounter' = totalRowCounter + 1
          /\ IF curRowCounter + 1 = numRows[first]
             THEN RemoveFirst
             ELSE /\ byteCounter' = byteCounter + d[2]
                  /\ curRowCounter' = curRowCounter + 1
                  /\ UNCHANGED <<partitions, invalidated>>
          /\ UNCHANGED <<pyobjects, exceptions, maxRows>>

\* one call of getNextRow()
GetNextRowCall ==
    /\ op' = "getNextRow"
    /\ IF MergeObject THEN EmitObject
       ELSE IF partitions = <<>>
            THEN /\ ret' = EmptyRow
                 /\ events' = <<>>
                 /\ UNCHANGED <<members, invalidated, lockedDead>>
            ELSE EmitPartitionRow
    /\ out' = Append(out, ret')
    /\ totals' = Append(totals, totalRowCounter')
    /\ UNCHANGED <<numRows, given, handed>>

getNextRow ==
    /\ Len(out) < MaxPulls
    /\ GetNextRowCall

Next ==
    \/ getNextRow
    \/ getNextPartition
    \/ removeFirstPartition
    \/ clear

Spec == Init /\ [][Next]_vars

\* a consumer that pulls rows and nothing else
NextPull == getNextRow

SpecPull == Init /\ [][NextPull]_vars

\* No drain is longer than this: every call delivers a stored row or a python
\* object, or reads an empty partition while a python object is not yet due.
MaxDrain == MaxParts * MaxPartRows + MaxPyObjects + MaxRowNumber + 1

\* the loop  while(rs.hasNextRow()) rs.getNextRow();  of a consumer
drainRow ==
    /\ HasNextRow
    /\ Len(out) < MaxDrain
    /\ GetNextRowCall

\* the loop runs on while it can: the consumer is never suspended in it
SpecDrain == Init /\ [][drainRow]_vars /\ WF_vars(drainRow)

\* a consumer that calls getNextRow() once more after hasNextRow() said no
pullPastEnd ==
    /\ ~HasNextRow
    /\ Len(out) < MaxDrain
    /\ GetNextRowCall

NextDrainOn ==
    \/ drainRow
    \/ pullPastEnd

SpecDrainOn == Init /\ [][NextDrainOn]_vars /\ WF_vars(drainRow)

\* a consumer that mixes getNextRow() and getNextPartition()
NextRowsAndPartitions ==
    \/ getNextRow
    \/ getNextPartition

SpecRowsAndPartitions == Init /\ [][NextRowsAndPartitions]_vars

\* ------------------------------------------------- vocabulary of the claims
NormalPartitions == DOMAIN numRows

\* the partition at position i of the queue still has a row nobody pulled
Unread(i) == IF i = 1 THEN curRowCounter < numRows[partitions[1]]
             ELSE numRows[partitions[i]] > 0

\* the rows of all partitions handed to the constructor, in arrival order
RECURSIVE RowsFrom(_)
RowsFrom(p) == IF p \notin NormalPartitions THEN <<>>
               ELSE [k \in 1..numRows[p] |-> PartitionRow(p, k)] \o RowsFrom(p + 1)

AllRows == RowsFrom(1)

\* the rows a sequence of getNextRow calls delivered (all but the empty rows)
Delivered(s) == SelectSeq(s, LAMBDA r : r # EmptyRow)

IsPrefix(s, t) == Len(s) <= Len(t) /\ s = SubSeq(t, 1, Len(s))

Unlimited == maxRows = INT64_MAX

\* every partition handed to the constructor holds at least one row
NoEmptyPartition == \A p \in NormalPartitions : numRows[p] > 0

\* C1: rowsRetrieved <= maxRows in every reachable state, and once they are
\* equal hasNextRow() and hasNextPartition() both return false.  (Stated for
\* cursors without empty partitions, where every decode is a stored row.)
C1_BudgetNeverExceeded ==
    NoEmptyPartition =>
        /\ rowsRetrieved <= maxRows
        /\ rowsRetrieved = maxRows => ~HasNextRow /\ ~HasNextPartition

\* maxRows getNextRow calls have delivered a row, or both queues are empty
C2_Exhausted ==
    \/ Len(Delivered(out)) >= maxRows
    \/ partitions = <<>> /\ pyobjects = <<>>

\* C2: once maxRows getNextRow calls have delivered a row, or both queues are
\* empty, hasNextRow() is false and every further getNextRow call returns the
\* empty row.  (Stated for cursors without empty partitions.)
C2_ExhaustionYieldsEmptyRows ==
    [][NoEmptyPartition /\ C2_Exhausted =>
         /\ ~HasNextRow
         /\ Len(out') > Len(out) => ret' = EmptyRow]_vars

\* C3: across getNextRow, removeFirstPartition and clear calls no partition
\* is invalidated more than once, a partition that left the queue is
\* invalidated, a queued partition is not, and no invalidated partition is
\* locked.
C3_InvalidatedExactlyOnce ==
    handed = {} =>
        /\ \A p \in DOMAIN invalidated : invalidated[p] <= 1
        /\ \A p \in Range(partitions) : invalidated[p] = 0
        /\ \A p \in NormalPartitions \ Range(partitions) : invalidated[p] >= 1
        /\ ~lockedDead

\* C4: hasNextRow() is true iff the budget is not exhausted and a python
\* object is queued or some queued partition has unread rows.
C4_HasNextRowIffRowsLeft ==
    HasNextRow <=>
        /\ rowsRetrieved < maxRows
        /\ \/ pyobjects # <<>>
           \/ \E i \in DOMAIN partitions : Unread(i)

\* the partition rows with the single python object put after the first k
C5_Spliced ==
    LET k == given[1][1]
    IN  SubSeq(AllRows, 1, k) \o <<pythonToRow(given[1][2])>>
            \o SubSeq(AllRows, k + 1, Len(AllRows))

\* C5: with an unlimited budget, a single python object of row number k and
\* partitions holding at least k rows, draining with getNextRow delivers the
\* first k partition rows, then the object, then the remaining partition rows.
C5_FallbackSplice ==
    (Unlimited /\ Len(given) = 1 /\ Len(AllRows) >= given[1][1]) =>
        /\ IsPrefix(Delivered(out), C5_Spliced)
        /\ Len(Delivered(out)) < Len(out) => Delivered(out) = C5_Spliced

\* totalRowCounter when the i-th getNextRow call was made
C6_Before(i) == IF i = 1 THEN 0 ELSE totals[i - 1]

\* the j-th python object and its successor carry the same row number
C6_SameTag(j) == j + 1 <= Len(given) /\ given[j + 1][1] = given[j][1]

\* C6: a python object delivered by getNextRow advances totalRowCounter by
\* one iff it was the last one queued or the next one has another row number;
\* two queued neighbours with the same row number (and no third) are
\* delivered by consecutive calls, over which totalRowCounter advances by one.
C6_DuplicateIndexSuppression ==
    \A i \in DOMAIN out :
        out[i].kind = "pyobject" =>
            LET j == out[i].a
            IN  /\ totals[i] - C6_Before(i) = IF C6_SameTag(j) THEN 0 ELSE 1
                /\ (C6_SameTag(j) /\ i + 1 <= Len(out)) =>
                       /\ out[i + 1] = pythonToRow(given[j + 1][2])
                       /\ (~C6_SameTag(j + 1) /\ (j = 1 \/ ~C6_SameTag(j - 1))) =>
                              totals[i + 1] - C6_Before(i) = 1

\* two python objects of one row number came out of consecutive calls while
\* a partition was queued
C6_PairDelivered ==
    \E i \in DOMAIN out :
        /\ i + 1 <= Len(out)
        /\ out[i].kind = "pyobject"
        /\ out[i + 1].kind = "pyobject"
        /\ C6_SameTag(out[i].a)
        /\ partitions # <<>>
        /\ totals[i + 1] = C6_Before(i) + 1

\* C7: with no python objects and an unlimited budget, the rows delivered by
\* repeated getNextRow calls are the rows of the partitions in arrival order,
\* none skipped or repeated.
C7_OrderPreserved ==
    (Unlimited /\ given = <<>>) =>
        /\ IsPrefix(Delivered(out), AllRows)
        /\ Len(Delivered(out)) < Len(out) => Delivered(out) = AllRows

\* C8: getNextPartition on a non-empty queue returns the front partition,
\* pops it without invalidating it, adds its row count to rowsRetrieved,
\* zeroes both in-partition offsets and leaves the python objects and
\* totalRowCounter alone; on an empty queue it returns none and changes
\* nothing.
C8_GetNextPartitionEffect ==
    [][op' = "getNextPartition" =>
         IF partitions = <<>>
         THEN /\ ret' = NoPartition
              /\ UNCHANGED <<members, invalidated>>
         ELSE /\ ret' = Head(partitions)
              /\ partitions' = Tail(partitions)
              /\ invalidated' = invalidated
              /\ rowsRetrieved' = rowsRetrieved + numRows[Head(partitions)]
              /\ curRowCounter' = 0
              /\ byteCounter' = 0
              /\ UNCHANGED <<pyobjects, totalRowCounter, exceptions, maxRows>>]_vars

\* getNextPartition returned a partition getNextRow had begun to read, with
\* python objects queued
C8_PartitionTakenMidway ==
    /\ op = "getNextPartition"
    /\ ret # NoPartition
    /\ pyobjects # <<>>
    /\ out # <<>>
    /\ Last(out).kind = "partition"
    /\ Last(out).a = ret
    /\ rowsRetrieved = Len(out) + numRows[ret]

\* C9: after clear() the partition queue is empty, every partition that was
\* queued and every exception partition is invalidated, and rowsRetrieved,
\* both in-partition offsets, totalRowCounter and the budget are zero.
\* (Stated for cursors without empty partitions.)
C9_ClearZeroesEverything ==
    (NoEmptyPartition /\ op = "clear") =>
        /\ partitions = <<>>
        /\ \A p \in DOMAIN invalidated : p \notin handed => invalidated[p] >= 1
        /\ rowsRetrieved = 0
        /\ curRowCounter = 0
        /\ byteCounter = 0
        /\ totalRowCounter = 0
        /\ maxRows = 0

\* every row of every queued partition, as <<place in the queue, row>>
C10_QueuedRows ==
    UNION {{<<i, k>> : k \in 1..numRows[partitions[i]]} : i \in DOMAIN partitions}

\* C10: rowCount() is the number of rows of all queued partitions, counted in
\* full also for a partly consumed front partition, plus the number of queued
\* python objects.
C10_RowCountIsQueuedTotal ==
    RowCount = Cardinality(C10_QueuedRows) + Len(pyobjects)

\* the front partition is partly consumed and rowCount() still counts it whole
C10_CountedMidPartition ==
    /\ op = "getNextRow"
    /\ curRowCounter > 0
    /\ pyobjects # <<>>
    /\ Len(partitions) > 1
    /\ NoEmptyPartition
    /\ RowCount = Len(pyobjects) + numRows[partitions[1]] + numRows[partitions[2]]

\* this step is a call of getNextRow()
PullStep == Len(out') = Len(out) + 1

\* the front partition, if any
Front == IF partitions = <<>> THEN NoPartition ELSE Head(partitions)

\* C11: getNextRow returns the front python object iff one is queued and the
\* partition queue is empty or its row number is <= totalRowCounter; otherwise,
\* with a partition queued, it returns what the front partition holds at the
\* current offset (its next stored row, if it has one); with both queues
\* empty it returns the empty row and changes no member.
C11_MergeDecision ==
    [][PullStep =>
         LET due == /\ pyobjects # <<>>
                    /\ partitions = <<>> \/ Head(pyobjects)[1] <= totalRowCounter
         IN  /\ (ret'.kind = "pyobject") <=> due
             /\ due => /\ ret' = pythonToRow(Head(pyobjects)[2])
                       /\ pyobjects' = Tail(pyobjects)
             /\ (~due /\ partitions # <<>>) =>
                    /\ ret' \in {d[1] : d \in FromMemory(Front, byteCounter)}
                    /\ curRowCounter < numRows[Front] =>
                           ret' = PartitionRow(Front, curRowCounter + 1)
                    /\ pyobjects' = pyobjects
             /\ (pyobjects = <<>> /\ partitions = <<>>) =>
                    /\ ret' = EmptyRow
                    /\ UNCHANGED <<members, invalidated>>]_vars

\* a partition row came first because the python object was not yet due, then
\* the python object, with a partition still queued
C11_ObjectAfterPartitionRow ==
    /\ Len(out) = 2
    /\ out[1].kind = "partition"
    /\ out[2].kind = "pyobject"
    /\ given[out[2].a][1] = 1
    /\ partitions # <<>>

\* row r is the last stored row of partition p
LastRowOf(r, p) == numRows[p] > 0 /\ r = PartitionRow(p, numRows[p])

\* C12: the getNextRow call that returns the N-th row of a front partition
\* with N rows invalidates that partition and removes it from the queue in
\* the same call, with both offsets back at zero; the getNextRow call after
\* it does not lock or read that partition: its row is a python object, the
\* empty row, or comes from the partition that is then at the front.
C12_PartitionRetirement ==
    [][PullStep =>
         /\ (partitions # <<>> /\ LastRowOf(ret', Front)) =>
                /\ invalidated'[Front] = AtMostTwo(invalidated[Front] + 1)
                /\ partitions' = Tail(partitions)
                /\ \A i \in DOMAIN partitions' : partitions'[i] # Front
                /\ curRowCounter' = 0
                /\ byteCounter' = 0
         /\ \A p \in NormalPartitions :
                (out # <<>> /\ LastRowOf(Last(out), p)) =>
                    /\ Front # p
                    /\ ret'.kind = "partition" => ret'.a = Front /\ ret'.a # p
                    /\ ret'.kind \in {"partition", "garbage"} <=>
                           (partitions # <<>> /\ ~MergeObject)]_vars

\* a pull returned the last row of the first partition and the pull after it
\* the first row of the second
C12_NextPullFromNextPartition ==
    /\ 2 \in NormalPartitions
    /\ Len(out) = 2
    /\ LastRowOf(out[1], 1)
    /\ out[2] = PartitionRow(2, 1)
    /\ invalidated[1] = 1
    /\ partitions = IF numRows[2] = 1 THEN <<>> ELSE <<2>>

\* C13: every step that changes which partition is at the front of the queue
\* (retirement inside getNextRow, getNextPartition, removeFirstPartition,
\* clear) ends with the row offset and the byte offset at zero; a getNextRow
\* call that emits a python object or the empty row leaves the queue of
\* partitions and both offsets as they were; and with no partition queued
\* both offsets are zero.  (hasNextRow, hasNextPartition and rowCount are
\* values of the state: they change nothing.)
C13_OffsetsFollowFront ==
    [][/\ Front' # Front => curRowCounter' = 0 /\ byteCounter' = 0
       /\ (PullStep /\ ret'.kind \in {"pyobject", "empty"}) =>
              UNCHANGED <<partitions, curRowCounter, byteCounter>>
       /\ partitions' = <<>> => curRowCounter' = 0 /\ byteCounter' = 0]_vars

\* the first of two rows was pulled, then a python object, and then
\* removeFirstPartition brought the second partition to the front
C13_FrontChangedMidPartition ==
    /\ op = "removeFirstPartition"
    /\ Len(out) = 2
    /\ out[1] = PartitionRow(1, 1)
    /\ out[2].kind = "pyobject"
    /\ numRows[1] = 2
    /\ Front = 2
    /\ curRowCounter = 0
    /\ byteCounter = 0

\* the budget clear() leaves behind
NoBudget == maxRows = 0

\* C14: when clear() returns, hasNextRow() and hasNextPartition() are false,
\* and they stay false across every further getNextRow, getNextPartition,
\* removeFirstPartition and clear call, also when python objects were still
\* queued at the time of the clear().
C14_ClearedForGood ==
    [][/\ op' = "clear" => NoBudget' /\ ~HasNextRow' /\ ~HasNextPartition'
       /\ (NoBudget /\ ~HasNextRow /\ ~HasNextPartition) =>
              (NoBudget' /\ ~HasNextRow' /\ ~HasNextPartition')]_vars

\* clear() was called with a python object queued, and a later getNextRow
\* took that object out of the queue all the same
C14_PulledAfterClear ==
    /\ NoBudget
    /\ op = "getNextRow"
    /\ ret.kind = "pyobject"
    /\ rowsRetrieved = 1
    /\ pyobjects # <<>>
    /\ \E i \in DOMAIN exceptions : invalidated[exceptions[i]] > 0

\* the locks held after the first i events of the sequence e
RECURSIVE Held(_, _)
Held(e, i) ==
    IF i = 0 THEN {}
    ELSE LET h == Held(e, i - 1)
         IN  IF e[i] = "lockGIL" THEN h \cup {"GIL"}
             ELSE IF e[i] = "unlockGIL" THEN h \ {"GIL"}
             ELSE IF e[i] = "lock" THEN h \cup {"partition"}
             ELSE IF e[i] = "unlock" THEN h \ {"partition"}
             ELSE h

\* event lk at position i of e opens a critical section of exactly one
\* event, what, and event ul closes it
Bracket(e, lk, what, ul, i) ==
    /\ e[i] = lk => /\ i + 2 <= Len(e)
                    /\ e[i + 1] = what
                    /\ e[i + 2] = ul
    /\ e[i] = what => i > 1 /\ e[i - 1] = lk
    /\ e[i] = ul => i > 2 /\ e[i - 2] = lk

\* the events of one call that returned r from operation o
LockDiscipline(e, o, r) ==
    /\ \A i \in 1..Len(e) :
          /\ Bracket(e, "lockGIL", "pythonToRow", "unlockGIL", i)
          /\ Bracket(e, "lock", "fromMemory", "unlock", i)
          /\ e[i] = "pythonToRow" => Held(e, i) = {"GIL"}
          /\ e[i] = "fromMemory" => Held(e, i) = {"partition"}
          /\ Held(e, i) # {"GIL", "partition"}
    /\ Held(e, Len(e)) = {}
    /\ o # "getNextRow" => e = <<>>
    /\ o = "getNextRow" =>
          /\ "pythonToRow" \in Range(e) <=> r.kind = "pyobject"
          /\ "fromMemory" \in Range(e) <=> r.kind \in {"partition", "garbage"}
          /\ e = <<>> <=> r = EmptyRow

\* C15: within the last call, whichever it was, the interop lock was held
\* exactly around the conversion of a python object and the front partition's
\* lock exactly around the decode of one row; the two were never held
\* together and none is held now that the call has returned.  Only getNextRow
\* takes a lock: the converting path returns the converted row, the decoding
\* path the decoded one, and the empty-queue path takes none.
C15_LockDiscipline == LockDiscipline(events, op, ret)

\* both critical sections were entered: one call converted a python object,
\* the next decoded a row of the front partition
C15_BothLocksUsed ==
    /\ Len(out) = 2
    /\ out[1].kind = "pyobject"
    /\ out[2].kind = "partition"
    /\ events = <<"lock", "fromMemory", "unlock">>

\* C16: in every state of a consumer that calls getNextRow only while
\* hasNextRow() is true, the row offset is at most the row count of the front
\* partition and no row returned so far was decoded beyond the rows of a
\* partition, whatever the queues hold, zero-row partitions included.
C16_NeverDecodesBeyondRows ==
    /\ partitions # <<>> => curRowCounter <= numRows[Front]
    /\ \A i \in DOMAIN out : out[i].kind # "garbage"

\* the python objects handed to the constructor, converted, in arrival order
AllObjects == [j \in DOMAIN given |-> pythonToRow(given[j][2])]

\* how often row r occurs in the sequence s
Count(s, r) == Cardinality({i \in DOMAIN s : s[i] = r})

\* C17: when the loop  while(hasNextRow()) getNextRow();  of a consumer with
\* unlimited budget has ended, every row of every partition and every python
\* object was returned exactly once and nothing else, both queues are empty
\* and every partition of the queue is invalidated, whatever the queues held
\* at the start, zero-row partitions and row numbers beyond the partition
\* rows included.
C17_GuardedDrainComplete ==
    (Unlimited /\ ~HasNextRow) =>
        /\ \A r \in Range(AllRows) \cup Range(AllObjects) : Count(out, r) = 1
        /\ Len(out) = Len(AllRows) + Len(AllObjects)
        /\ partitions = <<>>
        /\ pyobjects = <<>>
        /\ \A p \in NormalPartitions : invalidated[p] >= 1

\* C18: a consumer that repeats  while(hasNextRow()) getNextRow();  reaches
\* a state where hasNextRow() is false, for every partition list, python
\* object list and budget; and once hasNextRow() is false it stays false
\* across every further getNextRow call.
C18_DrainTerminates ==
    /\ <>[](~HasNextRow)
    /\ [][~HasNextRow => ~HasNextRow']_vars

\* the drain delivered a stored row and a python object and ended, and a
\* getNextRow call after its end returned the empty row
C18_DrainedAndPulledAgain ==
    /\ ~HasNextRow
    /\ Len(out) = 3
    /\ out[1].kind = "partition"
    /\ out[2].kind = "pyobject"
    /\ out[3] = EmptyRow

\* C19: a consumer that calls getNextRow only when hasNextRow() has just
\* returned true has received at most maxRows rows in every state, python
\* objects and partition rows together, and none of them is the empty row,
\* for every budget and every contents of the queues.
C19_GuardedBudget ==
    /\ Len(out) <= maxRows
    /\ rowsRetrieved = Len(out)
    /\ \A i \in DOMAIN out : out[i] # EmptyRow

\* the budget is used up by a stored row while more rows are queued
C19_BudgetReachedWithRowsLeft ==
    /\ maxRows = 1
    /\ Len(out) = 1
    /\ out[1].kind = "partition"
    /\ RowCount > 0
    /\ ~HasNextRow

\* the sum of the row counts of the partitions of the set ps
RECURSIVE RowsOf(_)
RowsOf(ps) == IF ps = {} THEN 0
              ELSE LET p == CHOOSE q \in ps : TRUE
                   IN  numRows[p] + RowsOf(ps \ {p})

\* the rows of the partitions returned by getNextPartition that no
\* getNextRow call had returned before
FreshRows == {r \in Range(AllRows) : r.a \in handed /\ r \notin Range(out)}

\* C20 as stated: rowsRetrieved is the number of distinct rows handed to the
\* consumer: the rows returned by getNextRow plus the rows of the partitions
\* returned by getNextPartition that getNextRow had not returned already.
\* (Stated for cursors without empty partitions, where every decode is a
\* stored row.)
C20_EachRowChargedOnce ==
    NoEmptyPartition =>
        rowsRetrieved = Len(Delivered(out)) + Cardinality(FreshRows)

\* C20 as amended: after any interleaving of getNextRow and getNextPartition
\* calls, rowsRetrieved is the number of rows returned by getNextRow plus the
\* full row counts of the partitions returned by getNextPartition: the rows
\* of a front partition that getNextRow had already returned are charged a
\* second time when getNextPartition hands that partition out.
C20_RowsAndWholePartitionsCharged ==
    rowsRetrieved = Len(Delivered(out)) + RowsOf(handed)

\* getNextPartition handed out a partition whose first row getNextRow had
\* returned before
C20_PartitionTakenAfterPull ==
    /\ op = "getNextPartition"
    /\ ret = 1
    /\ numRows[1] = 2
    /\ out = <<PartitionRow(1, 1)>>
    /\ rowsRetrieved = 3

====
